---- MODULE Spec2Model ----
(***************************************************************************)
(* Model of plugins/rtsp/src/rtsp.ts: the RTSP camera adapter (RtspCamera), *)
(* the smart adapter with its self-restarting listen loop                   *)
(* (RtspSmartCamera) and the device provider (RtspProvider).                *)
(*                                                                          *)
(* Three specifications share the variables:                                *)
(*   SpecConfig   - the configuration map and the getters derived from it   *)
(*   SpecListen   - the listen loop of one smart adapter (LiveListen adds   *)
(*                  the fairness of the event loop)                         *)
(*   SpecProvider - the provider's registry and discovery notifications     *)
(***************************************************************************)
EXTENDS Integers, Sequences, FiniteSets

VARIABLES
    storage,      \* this.storage of the adapter: partial map key -> string
    call,         \* the last adapter call and what it returned
    listener,     \* this.listener: the subscription the handle refers to
    subs,         \* every subscription acquired so far; each carries the 'error' handler
    timers,       \* pending setTimeout callbacks: records [id, rem]
    listenCount,  \* number of listenEvents() calls so far
    errCount,     \* number of 'error' events delivered so far
    lastOp,       \* the handler that ran in the last turn, with its arguments
    sinceErr,     \* bookkeeping of the last error that hit a Listening adapter
    sincePut,     \* bookkeeping of the last putSetting on the smart adapter
    devices,      \* RtspProvider.devices: partial map nativeId -> adapter object
    nextObj,      \* number of adapter objects constructed so far
    returned,     \* per nativeId, the objects getDevice has returned
    created,      \* per nativeId, the number of createCamera calls
    discovered,   \* deviceManager.onDeviceDiscovered calls, in order
    putArgs,      \* arguments of the provider's putSetting calls, in order
    alerts        \* alerts currently raised on the log

cfgVars == <<storage, call>>
loopVars == <<listener, subs, timers, listenCount, errCount, sinceErr, sincePut>>
listenVars == <<loopVars, lastOp>>
provVars == <<devices, nextObj, returned, created, discovered, putArgs, alerts>>
vars == <<storage, call, listener, subs, timers, listenCount, errCount, lastOp,
          sinceErr, sincePut, devices, nextObj, returned, created, discovered,
          putArgs, alerts>>

-----------------------------------------------------------------------------
(* Bounds of the model *)

MaxErrors == 3      \* error events delivered to one adapter
TickMs == 2500      \* granularity of the clock
MaxPuts == 2        \* putSetting calls on the provider

(* Program constants *)

RestartDelay == 10000

-----------------------------------------------------------------------------
(* JavaScript values: null, strings, integers and fractions in [0,1)        *)
(* (a fraction is kept as its thousandths).                                 *)

Null == [t |-> "null", s |-> "", n |-> 0]
Str(x) == [t |-> "str", s |-> x, n |-> 0]
Num(k) == [t |-> "num", s |-> "", n |-> k]
Frac(m) == [t |-> "frac", s |-> "", n |-> m]

Min(a, b) == IF a < b THEN a ELSE b
Max(a, b) == IF a > b THEN a ELSE b

Digit(d) == <<"0", "1", "2", "3", "4", "5", "6", "7", "8", "9">>[d + 1]

RECURSIVE NatToString(_)
NatToString(k) == IF k < 10 THEN Digit(k)
                  ELSE NatToString(k \div 10) \o Digit(k % 10)

\* m thousandths printed as the shortest decimal: 250 -> "0.25", 5 -> "0.005"
FracToString(m) ==
    LET d1 == m \div 100
        d2 == (m \div 10) % 10
        d3 == m % 10
    IN  IF m = 0 THEN "0"
        ELSE IF d3 # 0 THEN "0." \o Digit(d1) \o Digit(d2) \o Digit(d3)
        ELSE IF d2 # 0 THEN "0." \o Digit(d1) \o Digit(d2)
        ELSE "0." \o Digit(d1)

\* value.toString() of a string or a number
toString(v) == CASE v.t = "str" -> v.s
                 [] v.t = "num" -> NatToString(v.n)
                 [] v.t = "frac" -> FracToString(v.n)

\* `${v}` inside a template literal
Template(v) == IF v.t = "null" THEN "null" ELSE toString(v)

\* JavaScript truthiness, a || b
Truthy(v) == CASE v.t = "null" -> FALSE
               [] v.t = "str" -> v.s # ""
               [] OTHER -> v.n # 0

Or(a, b) == IF Truthy(a) THEN a ELSE b

-----------------------------------------------------------------------------
(* The configuration map (this.storage) *)

Keys == {"noAudio", "isAnalogueCamera", "rtspUrlOverride", "rtspChannel", "rtspUrlParams"}

StoredStrings == {"true", "false", "", "2", "rtsp://host", "?x=1"}

\* values an operator can pass to putSetting (string | number)
PutValues == {Str(x) : x \in StoredStrings} \cup {Num(2), Num(0)}

\* URLs the getConstructedStreamUrl() collaborator may supply
ConstructedUrls == {"rtsp://1.2.3.4:554/Streaming/Channels/101", "rtsp://cam/"}

AllConfigs == UNION {[D -> StoredStrings] : D \in SUBSET Keys}

getItem(st, k) == IF k \in DOMAIN st THEN Str(st[k]) ELSE Null

setItem(st, k, x) == [y \in DOMAIN st \cup {k} |-> IF y = k THEN x ELSE st[y]]

\* RtspCamera.putSetting: the write into the configuration map
RtspCamera_putSetting(st, k, v) == setItem(st, k, toString(v))

isAudioDisabled_truthy(st) == Truthy(getItem(st, "noAudio"))

isAudioDisabled(st) == getItem(st, "noAudio") = Str("true")

getVideoStreamOptions(st) ==
    <<[video |-> "{}", audio |-> IF isAudioDisabled(st) THEN "null" ELSE "{}"]>>

isAnalogueCamera(st) == getItem(st, "isAnalogueCamera") = Str("true")

getRtspChannel(st) == Or(getItem(st, "rtspChannel"), Str(""))

getRtspUrl(st) == getItem(st, "rtspUrlOverride")

getRtspUrlParams_nodefault(st) == getItem(st, "rtspUrlParams")

getRtspUrlParams(st) == Or(getItem(st, "rtspUrlParams"), Str("?transportmode=unicast"))

getAnalogueCameraUrl_numeric(st) ==
    Str(Template(getRtspUrl(st)) \o "/" \o Template(getRtspChannel(st)) \o "1/"
            \o Template(getRtspUrlParams(st)))

getAnalogueCameraUrl(st) ==
    LET channel == getRtspChannel(st)
        url == getRtspUrl(st)
        params == getRtspUrlParams(st)
    IN  Str(Template(url) \o "/" \o Template(channel) \o "01/" \o Template(params))

getRtspUrlOverride(st) ==
    IF isAnalogueCamera(st) /\ Truthy(getRtspChannel(st))
    THEN getAnalogueCameraUrl(st)
    ELSE getRtspUrl(st)

getStreamUrl_constructedFirst(st, constructed) == Or(Str(constructed), getRtspUrlOverride(st))

getStreamUrl(st, constructed) == Or(getRtspUrlOverride(st), Str(constructed))

NoCall == [op |-> "none", val |-> Null, vso |-> << >>, constructed |-> ""]

-----------------------------------------------------------------------------
(* The listen loop of a smart adapter *)

\* the listenEvents() collaborator hands out a subscription never seen before
listenEvents(n) == n + 1

onError_immediate(tm, e) == tm \cup {[id |-> e, rem |-> 0]}

onError_guarded(tm, e) == IF tm = {} THEN {[id |-> e, rem |-> RestartDelay]} ELSE tm

\* the 'error' handler installed by listenLoop: setTimeout(() => this.listenLoop(), 10000)
onError(tm, e) == tm \cup {[id |-> e, rem |-> RestartDelay]}

\* listener.emit('error', ...): runs the handler of subscription s synchronously
emit(s, tm, e) == IF s \in subs THEN onError(tm, e) ELSE tm

NoOp == [op |-> "none", key |-> "", value |-> Null, sub |-> 0, timer |-> 0, hit |-> FALSE]

NoErr == [active |-> FALSE, elapsed |-> 0, acq |-> 0, extra |-> 0]

NoPut == [turns |-> -1, count |-> 0, timer |-> 0]

\* bookkeeping: a turn has passed since the last putSetting
TurnAfterPut == IF sincePut.turns < 0 THEN sincePut
                ELSE [sincePut EXCEPT !.turns = Min(2, @ + 1)]

\* bookkeeping: an error was delivered on subscription s
ErrorSeen(s) == IF s = listener /\ timers = {}
                THEN [active |-> TRUE, elapsed |-> 0, acq |-> 0, extra |-> 0]
                ELSE IF sinceErr.active THEN [sinceErr EXCEPT !.extra = @ + 1]
                ELSE sinceErr

ListenKeys == {"rtspChannel", "noAudio"}

ListenValues == {Str("true"), Num(2)}

-----------------------------------------------------------------------------
(* The provider *)

\* identifiers the host platform knows; the empty one stands for "no id"
NativeIds == {"", "cam1", "cam2"}

NativeIdOrder == <<"", "cam1", "cam2">>

\* values Math.random() may return, in thousandths
RandomDraws == {5, 250}

ProviderKeys == {"new-camera", "anything"}

ProviderValues == {Str("Back Yard"), Num(17)}

\* this.getAdditionalInterfaces() of the base provider
getAdditionalInterfaces == << >>

\* new RtspCamera(nativeId): a new object, told apart by its allocation number
createCamera(nativeId, n) == [obj |-> n + 1, nativeId |-> nativeId]

\* the registry after the constructor's loop over deviceManager.getNativeIds()
WarmRegistry(known) ==
    [id \in {x \in known : x # ""} |->
        createCamera(id, Cardinality({j \in 1..Len(NativeIdOrder) :
            /\ NativeIdOrder[j] \in known
            /\ NativeIdOrder[j] # ""
            /\ \E i \in 1..Len(NativeIdOrder) : NativeIdOrder[i] = id /\ j < i}))]

AlertText(name) ==
    "New Camera " \o name \o " ready. Check the notification area to complete setup."

-----------------------------------------------------------------------------
(* Initial states *)

InitCfgPart == /\ storage = << >>
               /\ call = NoCall

InitListenPart == /\ listener = listenEvents(0)
                  /\ subs = {listenEvents(0)}
                  /\ timers = {}
                  /\ listenCount = 1
                  /\ errCount = 0
                  /\ lastOp = NoOp
                  /\ sinceErr = NoErr
                  /\ sincePut = NoPut

InitProvPart == /\ devices = << >>
                /\ nextObj = 0
                /\ returned = [id \in NativeIds |-> {}]
                /\ created = [id \in NativeIds |-> 0]
                /\ discovered = << >>
                /\ putArgs = << >>
                /\ alerts = {}

\* an adapter over any configuration the host platform has persisted
InitConfig == /\ storage \in AllConfigs
              /\ call = NoCall
              /\ InitListenPart
              /\ InitProvPart

\* RtspSmartCamera constructor: super(nativeId); this.listenLoop()
InitListen == /\ InitCfgPart
              /\ InitListenPart
              /\ InitProvPart

\* RtspProvider constructor: getDevice(camId) for every known, non-empty camId
InitProvider == /\ InitCfgPart
                /\ InitListenPart
                /\ \E known \in SUBSET NativeIds :
                      /\ devices = WarmRegistry(known)
                      /\ nextObj = Cardinality(DOMAIN devices)
                      /\ returned = [id \in NativeIds |->
                                        IF id \in DOMAIN devices THEN {devices[id]} ELSE {}]
                      /\ created = [id \in NativeIds |->
                                        IF id \in DOMAIN devices THEN 1 ELSE 0]
                /\ discovered = << >>
                /\ putArgs = << >>
                /\ alerts = {}

-----------------------------------------------------------------------------
(* Calls on the adapter's configuration *)

Camera_putSetting(k, v) ==
    /\ storage' = RtspCamera_putSetting(storage, k, v)
    /\ call' = [NoCall EXCEPT !.op = "putSetting"]
    /\ UNCHANGED <<listenVars, provVars>>

Camera_getVideoStreamOptions ==
    /\ call' = [NoCall EXCEPT !.op = "getVideoStreamOptions",
                              !.vso = getVideoStreamOptions(storage)]
    /\ UNCHANGED <<storage, listenVars, provVars>>

Smart_getRtspUrlOverride ==
    /\ call' = [NoCall EXCEPT !.op = "getRtspUrlOverride",
                              !.val = getRtspUrlOverride(storage)]
    /\ UNCHANGED <<storage, listenVars, provVars>>

Smart_getStreamUrl(constructed) ==
    /\ call' = [NoCall EXCEPT !.op = "getStreamUrl",
                              !.val = getStreamUrl(storage, constructed),
                              !.constructed = constructed]
    /\ UNCHANGED <<storage, listenVars, provVars>>

NextConfig ==
    \/ \E k \in Keys, v \in PutValues : Camera_putSetting(k, v)
    \/ Camera_getVideoStreamOptions
    \/ Smart_getRtspUrlOverride
    \/ \E c \in ConstructedUrls : Smart_getStreamUrl(c)

SpecConfig == InitConfig /\ [][NextConfig]_vars

-----------------------------------------------------------------------------
(* Turns of the smart adapter's event loop *)

\* RtspSmartCamera.putSetting: super.putSetting, then emit 'error' on this.listener
Smart_putSetting(k, v) ==
    /\ errCount < MaxErrors
    /\ storage' = RtspCamera_putSetting(storage, k, v)
    /\ timers' = emit(listener, timers, errCount + 1)
    /\ errCount' = errCount + 1
    /\ lastOp' = [NoOp EXCEPT !.op = "putSetting", !.key = k, !.value = v, !.sub = listener]
    /\ sinceErr' = ErrorSeen(listener)
    /\ sincePut' = [turns |-> 0, count |-> listenCount, timer |-> errCount + 1]
    /\ UNCHANGED <<call, listener, subs, listenCount, provVars>>

\* a network fault: subscription s, current or abandoned, emits 'error'
EmitError(s) ==
    /\ errCount < MaxErrors
    /\ s \in subs
    /\ timers' = emit(s, timers, errCount + 1)
    /\ errCount' = errCount + 1
    /\ lastOp' = [NoOp EXCEPT !.op = "error", !.sub = s]
    /\ sinceErr' = ErrorSeen(s)
    /\ sincePut' = TurnAfterPut
    /\ UNCHANGED <<storage, call, listener, subs, listenCount, provVars>>

TimerFire_noAcquire(t) ==
    /\ t \in timers
    /\ t.rem = 0
    /\ timers' = timers \ {t}
    /\ lastOp' = [NoOp EXCEPT !.op = "listenLoop", !.timer = t.id]
    /\ sinceErr' = sinceErr
    /\ sincePut' = TurnAfterPut
    /\ UNCHANGED <<storage, call, listener, subs, listenCount, errCount, provVars>>

\* the timer's callback: this.listenLoop()
TimerFire(t) ==
    /\ t \in timers
    /\ t.rem = 0
    /\ timers' = timers \ {t}
    /\ listener' = listenEvents(listenCount)
    /\ subs' = subs \cup {listenEvents(listenCount)}
    /\ listenCount' = listenCount + 1
    /\ lastOp' = [NoOp EXCEPT !.op = "listenLoop", !.timer = t.id]
    /\ sinceErr' = IF sinceErr.active THEN [sinceErr EXCEPT !.acq = @ + 1] ELSE sinceErr
    /\ sincePut' = TurnAfterPut
    /\ UNCHANGED <<storage, call, errCount, provVars>>

\* TickMs pass with nothing to run
Tick ==
    /\ timers' = {[t EXCEPT !.rem = Max(0, @ - TickMs)] : t \in timers}
    /\ sinceErr' = IF sinceErr.active
                   THEN [sinceErr EXCEPT !.elapsed = Min(RestartDelay, @ + TickMs)]
                   ELSE sinceErr
    /\ sincePut' = TurnAfterPut
    /\ lastOp' = [NoOp EXCEPT !.op = "tick"]
    /\ UNCHANGED <<storage, call, listener, subs, listenCount, errCount, provVars>>

NextListen ==
    \/ \E k \in ListenKeys, v \in ListenValues : Smart_putSetting(k, v)
    \/ \E s \in subs : EmitError(s)
    \/ \E t \in timers : TimerFire(t)
    \/ Tick

SpecListen == InitListen /\ [][NextListen]_vars

\* the event loop runs every due timer, and time passes
LiveListen == /\ SpecListen
              /\ WF_vars(Tick)
              /\ WF_vars(\E t \in timers : TimerFire(t))

-----------------------------------------------------------------------------
(* Calls on the provider *)

getDevice_uncached(nativeId) ==
    /\ devices' = devices
    /\ nextObj' = nextObj + 1
    /\ created' = [created EXCEPT ![nativeId] = @ + 1]
    /\ returned' = [returned EXCEPT ![nativeId] = @ \cup {createCamera(nativeId, nextObj)}]
    /\ lastOp' = [NoOp EXCEPT !.op = "getDevice", !.key = nativeId]
    /\ UNCHANGED <<cfgVars, loopVars, discovered, putArgs, alerts>>

getDevice(nativeId) ==
    /\ IF nativeId \in DOMAIN devices
       THEN /\ returned' = [returned EXCEPT ![nativeId] = @ \cup {devices[nativeId]}]
            /\ UNCHANGED <<devices, nextObj, created>>
       ELSE LET ret == createCamera(nativeId, nextObj)
            IN  /\ devices' = [y \in DOMAIN devices \cup {nativeId} |->
                                  IF y = nativeId THEN ret ELSE devices[y]]
                /\ nextObj' = nextObj + 1
                /\ created' = [created EXCEPT ![nativeId] = @ + 1]
                /\ returned' = [returned EXCEPT ![nativeId] = @ \cup {ret}]
    /\ lastOp' = [NoOp EXCEPT !.op = "getDevice", !.key = nativeId,
                               !.hit = nativeId \in DOMAIN devices]
    /\ UNCHANGED <<cfgVars, loopVars, discovered, putArgs, alerts>>

Provider_putSetting_nameFromKey(key, value, rnd) ==
    /\ Len(putArgs) < MaxPuts
    /\ discovered' = Append(discovered,
                        [nativeId |-> toString(Frac(rnd)),
                         name |-> key,
                         interfaces |-> <<"VideoCamera", "Settings">> \o getAdditionalInterfaces,
                         type |-> "Camera"])
    /\ putArgs' = Append(putArgs, [key |-> key, value |-> value])
    /\ alerts' = alerts
    /\ lastOp' = [NoOp EXCEPT !.op = "putSetting", !.key = key, !.value = value]
    /\ UNCHANGED <<cfgVars, loopVars, devices, nextObj, returned, created>>

\* rnd is what Math.random() returns in this call
Provider_putSetting(key, value, rnd) ==
    /\ Len(putArgs) < MaxPuts
    /\ LET nativeId == toString(Frac(rnd))
           name == toString(value)
           text == AlertText(name)
       IN  /\ discovered' = Append(discovered,
                               [nativeId |-> nativeId,
                                name |-> name,
                                interfaces |-> <<"VideoCamera", "Settings">>
                                                  \o getAdditionalInterfaces,
                                type |-> "Camera"])
           /\ alerts' = (alerts \cup {text}) \ {text}
    /\ putArgs' = Append(putArgs, [key |-> key, value |-> value])
    /\ lastOp' = [NoOp EXCEPT !.op = "putSetting", !.key = key, !.value = value]
    /\ UNCHANGED <<cfgVars, loopVars, devices, nextObj, returned, created>>

\* the body is empty
discoverDevices(duration) ==
    /\ lastOp' = [NoOp EXCEPT !.op = "discoverDevices"]
    /\ UNCHANGED <<cfgVars, loopVars, provVars>>

NextProvider ==
    \/ \E id \in NativeIds : getDevice(id)
    \/ \E k \in ProviderKeys, v \in ProviderValues, r \in RandomDraws : Provider_putSetting(k, v, r)
    \/ \E d \in {0, 30} : discoverDevices(d)

SpecProvider == InitProvider /\ [][NextProvider]_vars

\* the module's default specification
Init == InitListen
Next == NextListen
Spec == SpecListen

-----------------------------------------------------------------------------
(* Properties of the listen loop (SpecListen, LiveListen) *)

\* C1: after an error on the current subscription of a Listening adapter (no
\* restart pending), no subscription is acquired before 10 seconds have
\* passed since that error, and that error leads to exactly one new
\* subscription: none before its timer fires, one once it has fired.
C1_RestartAfterDelay ==
    sinceErr.active =>
        /\ sinceErr.elapsed < RestartDelay => sinceErr.acq = 0
        /\ sinceErr.extra = 0 =>
              /\ sinceErr.acq <= 1
              /\ timers = {} => (sinceErr.acq = 1 /\ sinceErr.elapsed >= RestartDelay)

C1_Witness ==
    /\ sinceErr.active
    /\ sinceErr.extra = 0
    /\ sinceErr.acq = 1
    /\ sinceErr.elapsed >= RestartDelay
    /\ lastOp.op = "listenLoop"

\* C2 as stated: by the end of the turn that follows a putSetting, exactly
\* one new subscription has been acquired.
C2_AcquiredByNextTurn ==
    sincePut.turns = 1 => listenCount = sincePut.count + 1

\* C2 amended: a putSetting writes the value as a string into the
\* configuration map, acquires no subscription in its own turn and schedules
\* exactly one restart timer with the 10-second delay; a subscription is
\* acquired only by a timer that has run down, one per timer.
C2_PutSchedulesOneRestart ==
    [][ /\ (lastOp'.op = "putSetting" /\ errCount' # errCount) =>
              /\ getItem(storage', lastOp'.key) = Str(toString(lastOp'.value))
              /\ listenCount' = listenCount
              /\ timers' = timers \cup {[id |-> errCount', rem |-> RestartDelay]}
              /\ Cardinality(timers') = Cardinality(timers) + 1
        /\ listenCount' # listenCount =>
              /\ listenCount' = listenCount + 1
              /\ lastOp'.op = "listenLoop"
              /\ [id |-> lastOp'.timer, rem |-> 0] \in timers
              /\ timers' = timers \ {[id |-> lastOp'.timer, rem |-> 0]}
      ]_vars

C2_Witness ==
    /\ sincePut.turns >= 1
    /\ lastOp.op = "listenLoop"
    /\ lastOp.timer = sincePut.timer
    /\ listenCount = sincePut.count + 1
    /\ "rtspChannel" \in DOMAIN storage
    /\ storage["rtspChannel"] = "2"

\* C8: the adapter is Listening at construction, and every error delivered
\* is followed by a further acquisition, after which the handle refers to
\* the newest subscription.
C8_AlwaysRestarts ==
    /\ (listenCount = 1 /\ listener = 1 /\ timers = {})
    /\ \A n \in 1..MaxErrors :
          (errCount >= n) ~> (listenCount >= n + 1 /\ listener = listenCount)

C8_Witness ==
    /\ errCount >= 2
    /\ listenCount = errCount + 1
    /\ listener = listenCount
    /\ timers = {}

\* C9 as stated: while a restart is pending, a further error or putSetting
\* schedules no additional restart, so at most one restart is ever pending.
C9_SingleRestartPending ==
    Cardinality(timers) <= 1

\* C10: subscriptions acquired plus restarts pending equals one plus errors
\* delivered; every acquired subscription still carries the handler and the
\* handle refers to the newest one.
C10_Accounting ==
    /\ listenCount + Cardinality(timers) = 1 + errCount
    /\ subs = 1..listenCount
    /\ listener = listenCount

C10_Witness ==
    /\ lastOp.op = "error"
    /\ lastOp.sub # listener
    /\ Cardinality(timers) >= 2
    /\ listenCount >= 2

-----------------------------------------------------------------------------
(* Properties of the provider (SpecProvider) *)

\* C3: for every identifier, getDevice has only ever returned one object,
\* createCamera has run at most once for it, and the registry still holds
\* that very object.
C3_SameInstance ==
    \A id \in NativeIds :
        /\ Cardinality(returned[id]) <= 1
        /\ created[id] <= 1
        /\ returned[id] # {} => (id \in DOMAIN devices /\ returned[id] = {devices[id]})
        /\ id \in DOMAIN devices => created[id] = 1

C3_Witness ==
    /\ lastOp.op = "getDevice"
    /\ lastOp.hit
    /\ lastOp.key \in DOMAIN devices
    /\ returned[lastOp.key] = {devices[lastOp.key]}
    /\ Len(discovered) >= 1

NotificationsMatchCalls ==
    /\ Len(discovered) = Len(putArgs)
    /\ \A i \in 1..Len(discovered) :
          /\ discovered[i].name = (IF putArgs[i].value.t = "str"
                                   THEN putArgs[i].value.s ELSE "17")
          /\ {"VideoCamera", "Settings"} \subseteq
                 {discovered[i].interfaces[j] : j \in 1..Len(discovered[i].interfaces)}
          /\ discovered[i].type = "Camera"
          /\ discovered[i].nativeId \in {"0.005", "0.25"}

\* C4 as stated: one notification per putSetting, with the name, interfaces
\* and type given, and an identifier different from every earlier one.
C4_FreshIdentifier ==
    /\ NotificationsMatchCalls
    /\ \A i, j \in 1..Len(discovered) :
          i # j => discovered[i].nativeId # discovered[j].nativeId

\* C4 amended: one notification per putSetting, whatever the key, with name
\* the value as a string, interfaces containing VideoCamera and Settings,
\* type Camera and the string form of that call's Math.random() draw as
\* identifier (nothing keeps two draws apart).
C4_OneNotificationPerPut ==
    /\ NotificationsMatchCalls
    /\ alerts = {}

C4_Witness ==
    /\ Len(discovered) = 2
    /\ putArgs[2].key = "anything"
    /\ putArgs[2].value = Num(17)
    /\ discovered[2].name = "17"
    /\ discovered[1].name = "Back Yard"

-----------------------------------------------------------------------------
(* Properties of the configuration getters (SpecConfig) *)

Stored(k) == k \in DOMAIN storage

AnalogueWithChannel ==
    /\ Stored("isAnalogueCamera") /\ storage["isAnalogueCamera"] = "true"
    /\ Stored("rtspChannel") /\ storage["rtspChannel"] # ""

\* absent keys read as the empty string
StoredOrEmpty(k) == IF Stored(k) THEN storage[k] ELSE ""

\* C5 as stated: the analogue URL is built from the three stored values
\* (whichever way an unset override is spelled), and otherwise the stored
\* override is returned unchanged.
C5_BuiltFromStored ==
    call.op = "getRtspUrlOverride" =>
        IF AnalogueWithChannel
        THEN \E u \in {StoredOrEmpty("rtspUrlOverride"), Template(getRtspUrl(storage))} :
                call.val = Str(u \o "/" \o storage["rtspChannel"]
                                 \o "01/" \o StoredOrEmpty("rtspUrlParams"))
        ELSE call.val = getItem(storage, "rtspUrlOverride")

\* C5 amended: as stated, except that an unset or empty rtspUrlParams is
\* replaced by ?transportmode=unicast and an unset rtspUrlOverride is
\* spelled null inside the analogue URL.
C5_BuiltWithDefaults ==
    call.op = "getRtspUrlOverride" =>
        IF AnalogueWithChannel
        THEN call.val = Str((IF Stored("rtspUrlOverride") THEN storage["rtspUrlOverride"]
                                                           ELSE "null")
                             \o "/" \o storage["rtspChannel"] \o "01/"
                             \o (IF StoredOrEmpty("rtspUrlParams") # ""
                                 THEN storage["rtspUrlParams"]
                                 ELSE "?transportmode=unicast"))
        ELSE call.val = getItem(storage, "rtspUrlOverride")

C5_Witness ==
    /\ call.op = "getRtspUrlOverride"
    /\ AnalogueWithChannel
    /\ storage["rtspChannel"] = "2"
    /\ Stored("rtspUrlOverride") /\ storage["rtspUrlOverride"] = "rtsp://host"
    /\ Stored("rtspUrlParams") /\ storage["rtspUrlParams"] = "?x=1"
    /\ call.val = Str("rtsp://host/201/?x=1")

\* C6: getStreamUrl returns the override when it is a non-empty string and
\* the constructed URL otherwise.
C6_OverrideElseConstructed ==
    call.op = "getStreamUrl" =>
        LET override == getRtspUrlOverride(storage)
        IN  IF override.t = "str" /\ Len(override.s) > 0
            THEN call.val = override
            ELSE call.val = Str(call.constructed)

C6_Witness ==
    /\ call.op = "getStreamUrl"
    /\ Stored("rtspUrlOverride") /\ storage["rtspUrlOverride"] = ""
    /\ ~AnalogueWithChannel
    /\ call.val = Str("rtsp://cam/")

\* C7: the descriptor omits audio exactly when the stored noAudio is the
\* string "true".
C7_AudioUnlessTrue ==
    call.op = "getVideoStreamOptions" =>
        /\ Len(call.vso) = 1
        /\ call.vso[1].video = "{}"
        /\ call.vso[1].audio = "null" <=> (Stored("noAudio") /\ storage["noAudio"] = "true")
        /\ call.vso[1].audio # "null" => call.vso[1].audio = "{}"

C7_Witness ==
    /\ call.op = "getVideoStreamOptions"
    /\ Stored("noAudio") /\ storage["noAudio"] = "false"
    /\ call.vso[1].audio = "{}"

====
